---- MODULE Spec2Model ----
(***************************************************************************)
(* Model of the conversion pipeline of app.py: convert_image,              *)
(* convert_video, create_download_button and the part of main that calls   *)
(* them.  Strings are sequences of one-character strings, so lower(),      *)
(* upper(), os.path.splitext and secure_filename are computed character    *)
(* by character.  The file system is a set of file records; directories    *)
(* are "cwd" (the process's working directory), "parent" and "grandparent" *)
(* (cwd/.. and cwd/../..) and "tmp" (the TemporaryDirectory of the         *)
(* running convert_video call).                                            *)
(***************************************************************************)
EXTENDS Integers, Sequences, FiniteSets, TLC

(* ------------------------------------------------------------------ *)
(* Bounds of the model                                                 *)
(* ------------------------------------------------------------------ *)

\* sizes are drawn from 0 and MaxFileSize - SizeSlack .. MaxFileSize + SizeSlack
SizeSlack == 1
\* a new request starts only while at most this many files are left on disk
MaxLeftover == 0

(* ------------------------------------------------------------------ *)
(* Strings                                                             *)
(* ------------------------------------------------------------------ *)

Uppers == <<"A","B","C","D","E","F","G","H","I","J","K","L","M",
            "N","O","P","Q","R","S","T","U","V","W","X","Y","Z">>
Lowers == <<"a","b","c","d","e","f","g","h","i","j","k","l","m",
            "n","o","p","q","r","s","t","u","v","w","x","y","z">>
Digits == {"0","1","2","3","4","5","6","7","8","9"}

IsUpper(c) == \E i \in 1..26 : Uppers[i] = c
IsLower(c) == \E i \in 1..26 : Lowers[i] = c

LowerChar(c) ==
  IF IsUpper(c) THEN Lowers[CHOOSE i \in 1..26 : Uppers[i] = c] ELSE c
UpperChar(c) ==
  IF IsLower(c) THEN Uppers[CHOOSE i \in 1..26 : Lowers[i] = c] ELSE c

\* str.lower() and str.upper()
Lower(s) == [i \in 1..Len(s) |-> LowerChar(s[i])]
Upper(s) == [i \in 1..Len(s) |-> UpperChar(s[i])]

\* str.rfind(c) with 1-based positions, 0 when c does not occur
RFind(s, c) ==
  IF \E i \in 1..Len(s) : s[i] = c
  THEN CHOOSE i \in 1..Len(s) : s[i] = c /\ \A j \in (i+1)..Len(s) : s[j] # c
  ELSE 0

\* os.path.splitext (posixpath): the extension starts at the last dot of the
\* last path component, unless only dots precede it in that component
SplitExt(p) ==
  LET sepIndex == RFind(p, "/")
      dotIndex == RFind(p, ".")
      split    == /\ dotIndex > sepIndex
                  /\ \E k \in (sepIndex+1)..(dotIndex-1) : p[k] # "."
  IN  IF split
      THEN [root |-> SubSeq(p, 1, dotIndex - 1), ext |-> SubSeq(p, dotIndex, Len(p))]
      ELSE [root |-> p, ext |-> << >>]

\* werkzeug.utils.secure_filename on POSIX, for ASCII names:
\*   replace os.sep by " "; "_".join(name.split()); drop every character
\*   outside [A-Za-z0-9_.-]; strip("._")
IsSpace(c) == c = " "
SafeChar(c) == IsUpper(c) \/ IsLower(c) \/ c \in Digits \/ c \in {"_", ".", "-"}

SepToSpace(s) == [i \in 1..Len(s) |-> IF s[i] = "/" THEN " " ELSE s[i]]

RECURSIVE LStrip(_, _)
LStrip(s, cs) ==
  IF s # << >> /\ Head(s) \in cs THEN LStrip(Tail(s), cs) ELSE s
RECURSIVE RStrip(_, _)
RStrip(s, cs) ==
  IF s # << >> /\ s[Len(s)] \in cs THEN RStrip(SubSeq(s, 1, Len(s) - 1), cs) ELSE s
Strip(s, cs) == RStrip(LStrip(s, cs), cs)

\* "_".join(s.split()): runs of whitespace become one "_", none at the ends
RECURSIVE JoinWords(_)
JoinWords(s) ==
  IF s = << >> THEN << >>
  ELSE IF IsSpace(Head(s))
       THEN LET rest == LStrip(s, {" "})
            IN  IF rest = << >> THEN << >> ELSE <<"_">> \o JoinWords(rest)
       ELSE <<Head(s)>> \o JoinWords(Tail(s))

RECURSIVE KeepSafe(_)
KeepSafe(s) ==
  IF s = << >> THEN << >>
  ELSE IF SafeChar(Head(s)) THEN <<Head(s)>> \o KeepSafe(Tail(s))
       ELSE KeepSafe(Tail(s))

secure_filename(name) ==
  Strip(KeepSafe(JoinWords(LStrip(SepToSpace(name), {" "}))), {".", "_"})


(* ------------------------------------------------------------------ *)
(* Program constants                                                   *)
(* ------------------------------------------------------------------ *)

\* the 10 MB limit of convert_image and convert_video
MaxFileSize == 10 * 1024 * 1024
\* max_dimensions = (10000, 10000)
MaxWidth  == 10000
MaxHeight == 10000

S_png  == <<"p","n","g">>
S_jpeg == <<"j","p","e","g">>
S_gif  == <<"g","i","f">>
S_webp == <<"w","e","b","p">>
S_bmp  == <<"b","m","p">>
S_ico  == <<"i","c","o">>
S_mp4  == <<"m","p","4">>
S_avi  == <<"a","v","i">>
S_mkv  == <<"m","k","v">>
S_webm == <<"w","e","b","m">>
S_flv  == <<"f","l","v">>
S_wmv  == <<"w","m","v">>
S_m4v  == <<"m","4","v">>

\* the options of the two "Convert to:" select boxes of main
ImageFormats ==
  { <<"P","N","G">>, <<"J","P","E","G">>, <<"G","I","F">>,
    <<"W","e","b","P">>, <<"B","M","P">>, <<"I","C","O">> }
VideoFormats ==
  { <<"M","P","4">>, <<"A","V","I">>, <<"G","I","F">>, <<"M","K","V">>,
    <<"W","E","B","M">>, <<"F","L","V">>, <<"W","M","V">>, <<"M","4","V">> }
\* other spellings a direct caller of convert_video can pass
VideoFormatSpellings == VideoFormats \cup { <<"w","e","b","m">>, <<"M","k","v">> }

(* ------------------------------------------------------------------ *)
(* File system                                                         *)
(* ------------------------------------------------------------------ *)

Up(dir) ==
  CASE dir = "cwd"         -> "parent"
    [] dir = "parent"      -> "grandparent"
    [] dir = "grandparent" -> "root"
    [] OTHER               -> dir

\* one step of path resolution: no sub-directory exists below the directories
\* of the model, so any named component leads nowhere ("none")
StepDir(dir, comp) ==
  IF dir = "none" THEN "none"
  ELSE IF comp = << >> \/ comp = <<".">> THEN dir
  ELSE IF comp = <<".", ".">> THEN Up(dir)
  ELSE "none"

RECURSIVE Walk(_, _, _)
Walk(p, dir, comp) ==
  IF p = << >>
  THEN [ok   |-> dir # "none" /\ comp \notin {<< >>, <<".">>, <<".", ".">>},
        dir  |-> dir,
        name |-> comp]
  ELSE IF Head(p) = "/"
       THEN Walk(Tail(p), StepDir(dir, comp), << >>)
       ELSE Walk(Tail(p), dir, Append(comp, Head(p)))

\* where open(p) of a path relative to the working directory lands
Resolve(p) ==
  IF p # << >> /\ Head(p) = "/" THEN Walk(p, "root", << >>) ELSE Walk(p, "cwd", << >>)

NoEnc == [explicit |-> FALSE, format |-> "", quality |-> ""]

File(dir, name, state, enc) ==
  [dir |-> dir, name |-> name, state |-> state, enc |-> enc]

Exists(files, dir, name) == \E f \in files : f.dir = dir /\ f.name = name

\* creating or truncating a file replaces what was at that path
WriteFile(files, dir, name, state, enc) ==
  {f \in files : ~(f.dir = dir /\ f.name = name)} \cup {File(dir, name, state, enc)}

RemoveFile(files, dir, name) == {f \in files : ~(f.dir = dir /\ f.name = name)}

\* shutil.rmtree of the temporary directory
RemoveTree(files, dir) == {f \in files : f.dir # dir}


(* ------------------------------------------------------------------ *)
(* Requests                                                            *)
(* ------------------------------------------------------------------ *)

\* uploaded file names: "a.mp4", "../a.png", "..", "d/b.gif", "b c$.x"
SourceNames ==
  { <<"a",".","m","p","4">>,
    <<".",".","/","a",".","p","n","g">>,
    <<".",".">>,
    <<"d","/","b",".","g","i","f">>,
    <<"b"," ","c","$",".","x">> }

Sizes == {0} \cup ((MaxFileSize - SizeSlack) .. (MaxFileSize + SizeSlack))

Dimensions ==
  { <<MaxWidth, MaxHeight>>, <<MaxWidth + 1, 1>>, <<1, MaxHeight + 1>> }

Request(kind, present, name, size, fmt, decode, dim, media) ==
  [kind |-> kind, present |-> present, name |-> name, size |-> size, fmt |-> fmt,
   decode |-> decode, width |-> dim[1], height |-> dim[2], media |-> media]

\* decode is what Image.open does with the stream: "ok", "unidentified"
\* (UnidentifiedImageError) or "oserror" (any other exception); an empty
\* stream is never identified
ImageRequests ==
  { Request("image", FALSE, << >>, 0, f, "n/a", <<0, 0>>, "n/a") : f \in ImageFormats }
  \cup
  { Request("image", TRUE, n, sz, f, "ok", d, "n/a") :
      n \in SourceNames, sz \in Sizes \ {0}, f \in ImageFormats, d \in Dimensions }
  \cup
  { Request("image", TRUE, n, sz, f, "unidentified", <<0, 0>>, "n/a") :
      n \in SourceNames, sz \in Sizes, f \in ImageFormats }
  \cup
  { Request("image", TRUE, n, sz, f, "oserror", <<0, 0>>, "n/a") :
      n \in SourceNames, sz \in Sizes \ {0}, f \in ImageFormats }

\* media is what the encoder makes of the content: "valid" or "corrupt";
\* an empty file is no valid media
VideoRequests ==
  { Request("video", FALSE, << >>, 0, f, "n/a", <<0, 0>>, "n/a") :
      f \in VideoFormatSpellings }
  \cup
  { Request("video", TRUE, n, sz, f, "n/a", <<0, 0>>, m) :
      n \in SourceNames, sz \in Sizes \ {0}, f \in VideoFormatSpellings,
      m \in {"valid", "corrupt"} }
  \cup
  { Request("video", TRUE, n, 0, f, "n/a", <<0, 0>>, "corrupt") :
      n \in SourceNames, f \in VideoFormatSpellings }

NoRequest == Request("none", FALSE, << >>, 0, << >>, "n/a", <<0, 0>>, "n/a")

(* ------------------------------------------------------------------ *)
(* State                                                               *)
(* ------------------------------------------------------------------ *)

VARIABLES
  pc,      \* position of the single thread of control
  req,     \* the arguments of the running (or last) conversion call
  fs,      \* the files on disk
  ws,      \* TRUE while the TemporaryDirectory of convert_video exists
  loc,     \* locals of convert_video
  ff,      \* the last encoder invocation
  result,  \* the value the conversion call returned
  errors,  \* the st.error reports of the call and of its handoff, in order
  trace,   \* the steps executed by the call and by its handoff, in order
  dl,      \* create_download_button: data read, download offered
  clean    \* every successful conversion so far ended in a successful delete

vars == <<pc, req, fs, ws, loc, ff, result, errors, trace, dl, clean>>

\* a returned value: None, a relative path (convert_image) or a path joined
\* to os.getcwd() (convert_video)
None == [some |-> FALSE, abs |-> FALSE, path |-> << >>]
RelPath(p) == [some |-> TRUE, abs |-> FALSE, path |-> p]
CwdPath(p) == [some |-> TRUE, abs |-> TRUE, path |-> p]

\* the file a returned path names
Target(r) ==
  IF r.abs THEN [ok |-> r.path # << >>, dir |-> "cwd", name |-> r.path]
  ELSE Resolve(r.path)

NoLocals == [input_filename |-> << >>, output_filename |-> << >>,
             exc |-> "none", ret |-> None]
NoRun == [called |-> FALSE, input |-> << >>, output |-> << >>,
          kwargs |-> {}, rows |-> 0]
NoDownload == [read |-> FALSE, offered |-> FALSE]

Init ==
  /\ pc = "idle"
  /\ req = NoRequest
  /\ fs = {}
  /\ ws = FALSE
  /\ loc = NoLocals
  /\ ff = NoRun
  /\ result = None
  /\ errors = << >>
  /\ trace = << >>
  /\ dl = NoDownload
  /\ clean = TRUE

\* a script run that converts starts from an idle app
CanStart == pc = "idle" /\ Cardinality(fs) <= MaxLeftover

(* ------------------------------------------------------------------ *)
(* convert_image                                                       *)
(* ------------------------------------------------------------------ *)

\* file_size > 10 * 1024 * 1024
TooLarge(size) == size > MaxFileSize

\* a variant of ImageChecks that opens the image before it checks the size
ImageChecksOpenFirst(r) ==
  IF ~r.present
  THEN [err |-> "EmptyInput", steps |-> <<"presence">>]
  ELSE IF r.decode = "unidentified"
  THEN [err |-> "UnreadableImage", steps |-> <<"presence", "open">>]
  ELSE IF r.decode # "ok"
  THEN [err |-> "ConversionFailed", steps |-> <<"presence", "open">>]
  ELSE IF r.size > MaxFileSize
  THEN [err |-> "FileTooLarge", steps |-> <<"presence", "open", "size">>]
  ELSE IF r.width > MaxWidth \/ r.height > MaxHeight
  THEN [err |-> "DimensionTooLarge",
        steps |-> <<"presence", "open", "size", "dimension">>]
  ELSE [err |-> "none", steps |-> <<"presence", "open", "size", "dimension">>]

\* the checks of convert_image up to the dimension check, in code order:
\* the error of the first failing one ("none" when all pass) and the steps run
ImageChecks(r) ==
  IF ~r.present
  THEN [err |-> "EmptyInput", steps |-> <<"presence">>]
  ELSE IF TooLarge(r.size)
  THEN [err |-> "FileTooLarge", steps |-> <<"presence", "size">>]
  ELSE IF r.decode = "unidentified"
  THEN [err |-> "UnreadableImage", steps |-> <<"presence", "size", "open">>]
  ELSE IF r.decode # "ok"
  THEN [err |-> "ConversionFailed", steps |-> <<"presence", "size", "open">>]
  ELSE IF r.width > MaxWidth \/ r.height > MaxHeight
  THEN [err |-> "DimensionTooLarge",
        steps |-> <<"presence", "size", "open", "dimension">>]
  ELSE [err |-> "none", steps |-> <<"presence", "size", "open", "dimension">>]

\* f"{input_name}.{output_format.lower()}" with input_name from os.path.splitext
ImageOutputName(name, fmt) == SplitExt(name).root \o <<".">> \o Lower(fmt)

\* save_params: quality 95 for JPEG, 90 for WEBP, none otherwise
SaveQuality(fmt) ==
  IF Upper(fmt) = Upper(S_webp) THEN "90"
  ELSE IF Upper(fmt) = Upper(S_jpeg) THEN "95"
  ELSE ""

\* the outcomes of img.save(output_filename): "ok"; "perm" (PermissionError,
\* nothing written); "partial" (an error after the file was opened for writing,
\* the truncated file stays); "error" (an error that leaves no file)
SaveOutcomes == {"ok", "perm", "partial", "error"}

\* a variant of ImageReturn that returns the path however img.save ended
ImageReturnAlways(o, output_filename) == RelPath(output_filename)

\* what convert_image returns once img.save has ended with outcome o
ImageReturn(o, output_filename) ==
  IF o = "ok" THEN RelPath(output_filename) ELSE None

\* the except clause that handles the way img.save ended
ImageSaveError(o) ==
  IF o = "ok" THEN << >>
  ELSE IF o = "perm" THEN <<"PermissionDenied">>
  ELSE <<"ConversionFailed">>

ConvertImage ==
  /\ CanStart
  /\ \E r \in ImageRequests, o \in SaveOutcomes :
       LET chk             == ImageChecks(r)
           output_filename == ImageOutputName(r.name, r.fmt)
           at              == Resolve(output_filename)
           \* open() of a path whose directory does not exist fails
           out             == IF at.ok THEN o ELSE "error"
           enc             == [explicit |-> FALSE, format |-> "",
                               quality |-> SaveQuality(r.fmt)]
       IN  /\ req' = r
           /\ IF chk.err # "none"
              THEN /\ errors' = <<chk.err>>
                   /\ result' = None
                   /\ trace' = chk.steps
                   /\ fs' = fs
              ELSE /\ errors' = ImageSaveError(out)
                   /\ result' = ImageReturn(out, output_filename)
                   /\ trace' = Append(chk.steps, "save")
                   /\ fs' = CASE out = "ok" ->
                                   WriteFile(fs, at.dir, at.name, "full", enc)
                              [] out = "partial" ->
                                   WriteFile(fs, at.dir, at.name, "partial", enc)
                              [] OTHER -> fs
  /\ pc' = "ret"
  /\ dl' = NoDownload
  /\ loc' = NoLocals
  /\ ff' = NoRun
  /\ UNCHANGED <<ws, clean>>


(* ------------------------------------------------------------------ *)
(* convert_video                                                       *)
(* ------------------------------------------------------------------ *)

\* the seven conditional dictionaries unpacked into ffmpeg.output, in code
\* order, for the compared format text f; a dictionary is a set of <<keyword, value>> pairs (crf is passed
\* as a number and reaches the command line as this text)
ProfileDicts(f) ==
     << IF f = S_mp4
        THEN {<<"c:v", "libx264">>, <<"preset", "slow">>, <<"crf", "18">>}
        ELSE {},
        IF f = S_gif THEN {<<"c:v", "gif">>} ELSE {},
        IF f = S_mkv
        THEN {<<"c:v", "libx264">>, <<"preset", "slow">>, <<"crf", "18">>,
              <<"format", "matroska">>}
        ELSE {},
        IF f = S_webm THEN {<<"c:v", "libvpx-vp9">>, <<"crf", "30">>} ELSE {},
        IF f = S_flv THEN {<<"c:v", "flv">>} ELSE {},
        IF f = S_wmv THEN {<<"c:v", "wmv2">>} ELSE {},
        IF f = S_m4v
        THEN {<<"c:v", "libx264">>, <<"preset", "slow">>, <<"crf", "18">>,
              <<"format", "mp4">>}
        ELSE {} >>

\* a variant of KwargDicts that compares the format as given, not lowercased
KwargDictsNoLower(fmt) == ProfileDicts(fmt)

\* each condition compares output_format.lower()
KwargDicts(fmt) == ProfileDicts(Lower(fmt))

Keys(d) == {kv[1] : kv \in d}

\* a call f(**a, **b) with a keyword in both a and b raises TypeError
DuplicateKeyword(ds) ==
  \E i, j \in 1..Len(ds) : i < j /\ Keys(ds[i]) \cap Keys(ds[j]) # {}

MergedKwargs(ds) == UNION {ds[i] : i \in 1..Len(ds)}
Contributing(ds) == Cardinality({i \in 1..Len(ds) : ds[i] # {}})

\* a variant of VideoOutputName that appends the format as given
VideoOutputNameNoLower(input_filename, fmt) ==
  SplitExt(input_filename).root \o <<".">> \o fmt

\* f"{os.path.splitext(input_filename)[0]}.{output_format.lower()}"
VideoOutputName(input_filename, fmt) ==
  SplitExt(input_filename).root \o <<".">> \o Lower(fmt)

\* the container the encoder writes: the "format" argument when one is
\* passed, otherwise the one it picks from the output file's extension
Container(kwargs) ==
  IF \E kv \in kwargs : kv[1] = "format"
  THEN [explicit |-> TRUE, quality |-> "",
        format |-> (CHOOSE kv \in kwargs : kv[1] = "format")[2]]
  ELSE [explicit |-> FALSE, quality |-> "", format |-> ""]

\* with tempfile.TemporaryDirectory() as tmpdir:
VideoEnter ==
  /\ CanStart
  /\ \E r \in VideoRequests : req' = r
  /\ ws' = TRUE
  /\ pc' = "v_write"
  /\ loc' = NoLocals
  /\ ff' = NoRun
  /\ result' = None
  /\ errors' = << >>
  /\ trace' = <<"mkdtemp">>
  /\ dl' = NoDownload
  /\ UNCHANGED <<fs, clean>>

\* lines 74-78: sanitize the name, write the upload into the workspace.
\* input_file.name of None raises; open() of the workspace directory itself
\* (an empty sanitized name) raises; the write can fail part-way
VideoWrite ==
  /\ pc = "v_write"
  /\ LET input_filename == secure_filename(req.name)
     IN  IF ~req.present \/ input_filename = << >>
         THEN /\ loc' = [loc EXCEPT !.exc = "other"]
              /\ pc' = "v_exit"
              /\ UNCHANGED <<fs, trace>>
         ELSE /\ trace' = Append(trace, "write")
              /\ \E ok \in BOOLEAN :
                   IF ok
                   THEN /\ fs' = WriteFile(fs, "tmp", input_filename, "full", NoEnc)
                        /\ loc' = [loc EXCEPT !.input_filename = input_filename]
                        /\ pc' = "v_size"
                   ELSE /\ fs' = WriteFile(fs, "tmp", input_filename, "partial", NoEnc)
                        /\ loc' = [loc EXCEPT !.input_filename = input_filename,
                                              !.exc = "other"]
                        /\ pc' = "v_exit"
  /\ UNCHANGED <<req, ws, ff, result, errors, dl, clean>>

\* lines 81-90: the size check on the file on disk, then the output name
VideoSize ==
  /\ pc = "v_size"
  /\ trace' = Append(trace, "size")
  /\ IF TooLarge(req.size)
     THEN /\ errors' = Append(errors, "FileTooLarge")
          /\ loc' = [loc EXCEPT !.ret = None]
          /\ pc' = "v_exit"
     ELSE /\ errors' = errors
          /\ loc' = [loc EXCEPT !.output_filename =
                                   VideoOutputName(loc.input_filename, req.fmt)]
          /\ pc' = "v_encode"
  /\ UNCHANGED <<req, fs, ws, ff, result, dl, clean>>

\* the ways ffmpeg.run can end: "ok"; "error" (ffmpeg.Error: nonzero exit);
\* "oserror" (the encoder could not be started).  It ends "ok" only for
\* valid media and an output path other than the input path
EncodeOutcomes(r, input_filename, output_filename) ==
  IF r.media = "valid" /\ r.size > 0 /\ input_filename # output_filename
  THEN {"ok", "error", "oserror"}
  ELSE {"error", "oserror"}

\* lines 93-119: build the arguments and run the encoder
VideoEncode ==
  /\ pc = "v_encode"
  /\ LET ds == KwargDicts(req.fmt)
     IN  IF DuplicateKeyword(ds)
         THEN /\ loc' = [loc EXCEPT !.exc = "other"]
              /\ pc' = "v_exit"
              /\ UNCHANGED <<fs, ff, trace>>
         ELSE /\ ff' = [called |-> TRUE, input |-> loc.input_filename,
                        output |-> loc.output_filename,
                        kwargs |-> MergedKwargs(ds), rows |-> Contributing(ds)]
              /\ trace' = Append(trace, "encode")
              /\ \E o \in EncodeOutcomes(req, loc.input_filename, loc.output_filename) :
                   CASE o = "ok" ->
                          /\ fs' = WriteFile(fs, "tmp", loc.output_filename, "full",
                                             Container(MergedKwargs(ds)))
                          /\ loc' = loc
                          /\ pc' = "v_copy"
                     [] o = "error" ->
                          /\ fs' = IF loc.input_filename = loc.output_filename THEN fs
                                   ELSE WriteFile(fs, "tmp", loc.output_filename,
                                                  "partial", Container(MergedKwargs(ds)))
                          /\ loc' = [loc EXCEPT !.exc = "ffmpeg"]
                          /\ pc' = "v_exit"
                     [] OTHER ->
                          /\ fs' = fs
                          /\ loc' = [loc EXCEPT !.exc = "other"]
                          /\ pc' = "v_exit"
  /\ UNCHANGED <<req, ws, result, errors, dl, clean>>

\* the ways shutil.copy can end: "ok"; "partial" (an error after the
\* destination was created); "error" (an error before that)
CopyOutcomes == {"ok", "partial", "error"}

\* lines 122-125: copy the output to the working directory, return its path
VideoCopy ==
  /\ pc = "v_copy"
  /\ trace' = Append(trace, "copy")
  /\ \E o \in CopyOutcomes :
       LET src == CHOOSE f \in fs : f.dir = "tmp" /\ f.name = loc.output_filename
       IN  CASE o = "ok" ->
                  /\ fs' = WriteFile(fs, "cwd", loc.output_filename, src.state, src.enc)
                  /\ loc' = [loc EXCEPT !.ret = CwdPath(loc.output_filename)]
             [] o = "partial" ->
                  /\ fs' = WriteFile(fs, "cwd", loc.output_filename, "partial", src.enc)
                  /\ loc' = [loc EXCEPT !.exc = "other"]
             [] OTHER ->
                  /\ fs' = fs
                  /\ loc' = [loc EXCEPT !.exc = "other"]
  /\ pc' = "v_exit"
  /\ UNCHANGED <<req, ws, ff, result, errors, dl, clean>>

\* a variant of VideoExceptError without the clause for Exception
VideoExceptErrorFfmpegOnly(exc) ==
  IF exc = "ffmpeg" THEN <<"EncodeFailed">> ELSE << >>

\* the except clause that handles a pending exception of convert_video
VideoExceptError(exc) ==
  CASE exc = "ffmpeg" -> <<"EncodeFailed">>
    [] exc = "other"  -> <<"ConversionFailed">>
    [] OTHER          -> << >>

\* what convert_video returns: None from an except clause, else the value of
\* the return statement that left the with block
VideoReturn(exc, ret) == IF exc # "none" THEN None ELSE ret

\* a variant of WorkspaceExit for a workspace that is never removed
WorkspaceExitLeak(files) == files

\* the files left once the with block is left
WorkspaceExit(files) == RemoveTree(files, "tmp")

\* leaving the with block (by return or by exception) removes the workspace;
\* then the except clause, if any, reports and the call returns
VideoExit ==
  /\ pc = "v_exit"
  /\ fs' = WorkspaceExit(fs)
  /\ ws' = FALSE
  /\ trace' = Append(trace, "rmtree")
  /\ errors' = errors \o VideoExceptError(loc.exc)
  /\ result' = VideoReturn(loc.exc, loc.ret)
  /\ pc' = "ret"
  /\ UNCHANGED <<req, loc, ff, dl, clean>>

(* ------------------------------------------------------------------ *)
(* main and create_download_button                                     *)
(* ------------------------------------------------------------------ *)

\* if result: ... create_download_button(result, ...)
MainAfterConvert ==
  /\ pc = "ret"
  /\ pc' = IF result.some THEN "d_read" ELSE "done"
  /\ UNCHANGED <<req, fs, ws, loc, ff, result, errors, trace, dl, clean>>

\* with open(file_path, "rb") as f: data = f.read()
DownloadRead ==
  /\ pc = "d_read"
  /\ trace' = Append(trace, "read")
  /\ LET at == Target(result)
     IN  \E ok \in BOOLEAN :
           IF ok /\ at.ok /\ Exists(fs, at.dir, at.name)
           THEN /\ dl' = [dl EXCEPT !.read = TRUE]
                /\ pc' = "d_offer"
                /\ UNCHANGED <<errors, clean>>
           ELSE /\ errors' = Append(errors, "HandlingFailed")
                /\ clean' = FALSE
                /\ pc' = "done"
                /\ dl' = dl
  /\ UNCHANGED <<req, fs, ws, loc, ff, result>>

\* st.download_button(label=label, data=data, ...)
DownloadOffer ==
  /\ pc = "d_offer"
  /\ dl' = [dl EXCEPT !.offered = TRUE]
  /\ trace' = Append(trace, "offer")
  /\ pc' = "d_remove"
  /\ UNCHANGED <<req, fs, ws, loc, ff, result, errors, clean>>

\* a variant of Removed that deletes nothing
RemovedNothing(files, r) == files

\* the files left by os.remove of the file at the returned path
Removed(files, r) == RemoveFile(files, Target(r).dir, Target(r).name)

\* os.remove(file_path); a failure is reported by the except clause
DownloadRemove ==
  /\ pc = "d_remove"
  /\ trace' = Append(trace, "remove")
  /\ \E ok \in BOOLEAN :
       IF ok
       THEN /\ fs' = Removed(fs, result)
            /\ UNCHANGED <<errors, clean>>
       ELSE /\ fs' = fs
            /\ errors' = Append(errors, "HandlingFailed")
            /\ clean' = FALSE
  /\ pc' = "done"
  /\ UNCHANGED <<req, ws, loc, ff, result, dl>>

\* the script run ends; its locals and its page are gone when the next
\* interaction reruns the script
EndRun ==
  /\ pc = "done"
  /\ pc' = "idle"
  /\ req' = NoRequest
  /\ loc' = NoLocals
  /\ ff' = NoRun
  /\ result' = None
  /\ errors' = << >>
  /\ trace' = << >>
  /\ dl' = NoDownload
  /\ UNCHANGED <<fs, ws, clean>>

Next ==
  \/ ConvertImage
  \/ VideoEnter
  \/ VideoWrite
  \/ VideoSize
  \/ VideoEncode
  \/ VideoCopy
  \/ VideoExit
  \/ MainAfterConvert
  \/ DownloadRead
  \/ DownloadOffer
  \/ DownloadRemove
  \/ EndRun

Spec == Init /\ [][Next]_vars


(* ------------------------------------------------------------------ *)
(* Properties                                                          *)
(* ------------------------------------------------------------------ *)

Returned == pc = "ret"
InTrace(step) == \E i \in 1..Len(trace) : trace[i] = step
Index(step) == CHOOSE i \in 1..Len(trace) : trace[i] = step
Encoded == InTrace("save") \/ InTrace("encode")

\* C1: every input longer than 10 MiB ends convert_image and convert_video in
\* the single failure FileTooLarge, with no path returned and no encode step
\* run; an input of exactly 10 MiB is not rejected as too large.
C1_TooLargeAlwaysFileTooLarge ==
  (Returned /\ req.present) =>
     /\ req.size > MaxFileSize =>
          (errors = <<"FileTooLarge">> /\ ~result.some /\ ~Encoded)
     /\ req.size = MaxFileSize =>
          \A i \in 1..Len(errors) : errors[i] # "FileTooLarge"

\* the checks of image validation in the stated order, and whether an input
\* fails each of them
CheckOrder == <<"presence", "size", "open", "dimension">>
FailsCheck(r, c) ==
  CASE c = "presence"  -> ~r.present
    [] c = "size"      -> r.size > MaxFileSize
    [] c = "open"      -> r.present /\ r.decode # "ok"
    [] c = "dimension" -> r.width > MaxWidth \/ r.height > MaxHeight
FailureOf(r, c) ==
  CASE c = "presence"  -> "EmptyInput"
    [] c = "size"      -> "FileTooLarge"
    [] c = "open"      -> IF r.decode = "unidentified" THEN "UnreadableImage"
                          ELSE "ConversionFailed"
    [] c = "dimension" -> "DimensionTooLarge"
FailingChecks(r) == {i \in 1..4 : FailsCheck(r, CheckOrder[i])}
FirstFailing(r) ==
  CHOOSE i \in FailingChecks(r) : \A j \in FailingChecks(r) : i <= j

\* C2: image validation runs presence, size, decodability, dimension in this
\* order and stops at the first failing check: the one error reported is that
\* of the earliest failing check, the steps run are exactly the checks up to
\* it, and no save is run after a failed check.
C2_FirstFailingCheckReported ==
  (Returned /\ req.kind = "image" /\ FailingChecks(req) # {}) =>
     LET k == FirstFailing(req)
     IN  /\ errors = <<FailureOf(req, CheckOrder[k])>>
         /\ trace = SubSeq(CheckOrder, 1, k)
         /\ ~result.some

C2_Witness ==
  /\ Returned /\ req.kind = "image"
  /\ req.size > MaxFileSize /\ req.decode = "unidentified"
  /\ errors = <<"FileTooLarge">>

\* C3: a 0-byte upload (file present, stream of length 0) is rejected with
\* EmptyInput, on the image path and on the video path.
C3_EmptyUploadIsEmptyInput ==
  (Returned /\ req.present /\ req.size = 0) => errors = <<"EmptyInput">>

\* C4: when convert_video has returned (by any exit path) its temporary
\* workspace and every file in it are gone, the removal being the last step
\* of the call; and on success the copy to the working directory came before
\* the removal, so the returned path names an existing file there.
C4_WorkspaceRemovedAfterCopy ==
  /\ (ws \/ \E f \in fs : f.dir = "tmp") =>
        pc \in {"v_write", "v_size", "v_encode", "v_copy", "v_exit"}
  /\ (Returned /\ req.kind = "video") =>
        /\ trace[Len(trace)] = "rmtree"
        /\ result.some =>
             /\ InTrace("copy") /\ Index("copy") < Index("rmtree")
             /\ Exists(fs, Target(result).dir, Target(result).name)
             /\ Target(result).dir = "cwd"

C4_Witness ==
  /\ Returned /\ req.kind = "video" /\ result.some
  /\ ~ws /\ trace = <<"mkdtemp", "write", "size", "encode", "copy", "rmtree">>

\* C5: a conversion returns a path only if its encode step ran and ended
\* without error (and, for video, the copy completed): the file at the
\* returned path is completely written; whenever an error was reported no
\* path is returned.
C5_SuccessOnlyAfterCompleteEncode ==
  Returned =>
     /\ result.some =>
          /\ Encoded
          /\ errors = << >>
          /\ req.kind = "video" => InTrace("copy") /\ loc.exc = "none"
          /\ \E f \in fs : /\ f.dir = Target(result).dir
                           /\ f.name = Target(result).name
                           /\ f.state = "full"
     /\ errors # << >> => ~result.some

C5_Witness ==
  /\ Returned /\ ~result.some
  /\ \E f \in fs : f.state = "partial" /\ f.dir # "tmp"
  /\ errors = <<"ConversionFailed">>

\* the FormatProfile table: codec, quality/CRF, preset, container override
\* ("" is an empty cell)
Row(codec, crf, preset, container) ==
  [codec |-> codec, crf |-> crf, preset |-> preset, container |-> container]
NoRow == Row("", "", "", "")
FormatProfile(f) ==
  CASE f = S_mp4  -> Row("h264", "18", "slow", "")
    [] f = S_m4v  -> Row("h264", "18", "slow", "mp4")
    [] f = S_mkv  -> Row("h264", "18", "slow", "matroska")
    [] f = S_webm -> Row("vp9", "30", "", "")
    [] f = S_gif  -> Row("gif", "", "", "")
    [] f = S_flv  -> Row("flv", "", "", "")
    [] f = S_wmv  -> Row("wmv2", "", "", "")
    [] OTHER      -> NoRow
\* the encoder that the code names for a codec of the table
EncoderOf(codec) ==
  CASE codec = "h264" -> "libx264"
    [] codec = "vp9"  -> "libvpx-vp9"
    [] OTHER          -> codec
\* the arguments a row stands for, an empty cell giving no argument
RowArgs(row) ==
  {kv \in { <<"c:v", EncoderOf(row.codec)>>, <<"crf", row.crf>>,
            <<"preset", row.preset>>, <<"format", row.container>> } : kv[2] # ""}

\* C6: for every recognized video format, in any letter case, the arguments
\* passed to the encoder are exactly those of the format's FormatProfile row,
\* one row contributing them; a format outside the table (AVI) is encoded
\* with no argument at all.
C6_EncoderArgsAreProfileRow ==
  ff.called =>
     LET row == FormatProfile(Lower(req.fmt))
     IN  /\ ff.kwargs = RowArgs(row)
         /\ ff.rows = IF row = NoRow THEN 0 ELSE 1
         /\ Lower(req.fmt) = S_avi => ff.kwargs = {}

C6_Witness ==
  /\ ff.called /\ req.fmt = <<"M","k","v">>
  /\ ff.kwargs = {<<"c:v", "libx264">>, <<"preset", "slow">>, <<"crf", "18">>,
                  <<"format", "matroska">>}

\* C7: a successful convert_video returns a file whose container is the
\* table's container override for the target format when the row has one,
\* and otherwise the one that goes with the file's extension; the extension
\* is the lowercase target format.
C7_OutputContainerMatchesProfile ==
  (Returned /\ req.kind = "video" /\ result.some) =>
     LET row == FormatProfile(Lower(req.fmt))
     IN  /\ SplitExt(result.path).ext = <<".">> \o Lower(req.fmt)
         /\ \A f \in fs :
              (f.dir = "cwd" /\ f.name = result.path) =>
                 IF row.container # ""
                 THEN f.enc.explicit /\ f.enc.format = row.container
                 ELSE ~f.enc.explicit

C7_Witness ==
  /\ Returned /\ req.kind = "video" /\ result.some
  /\ req.fmt = <<"M","4","V">>
  /\ \E f \in fs : f.dir = "cwd" /\ f.name = result.path /\ f.enc.format = "mp4"

\* C8: for every source file name every file a conversion creates lies
\* directly in the request's temporary workspace or directly in the working
\* directory.
C8_FilesOnlyInWorkspaceOrCwd ==
  \A f \in fs : f.dir \in {"cwd", "tmp"} /\ \A i \in 1..Len(f.name) : f.name[i] # "/"

\* C9: every call of convert_image or convert_video returns with exactly one
\* variant populated: a path and no error reported, or None and exactly one
\* error reported.
C9_ExactlyOneVariant ==
  Returned =>
     \/ result.some /\ errors = << >>
     \/ ~result.some /\ Len(errors) = 1

C9_Witness ==
  /\ Returned /\ req.kind = "video" /\ ~req.present
  /\ ~result.some /\ errors = <<"ConversionFailed">>

====
